---- MODULE Spec2Model ----
(***************************************************************************)
(* Model of plugins/process.py (class ProcessManager): the placement/BOM   *)
(* generation, the CSV writers, the archive bundling and the footprint     *)
(* name normalisation.                                                     *)
(*                                                                         *)
(* Python strings are sequences of one-character strings, so that          *)
(* formatting, comparison, upper-casing, substring tests and the regular   *)
(* expression are computed character by character.                         *)
(***************************************************************************)
EXTENDS Integers, Sequences, FiniteSets, TLC

(***************************************************************************)
(* State                                                                   *)
(*   pc                     position in the operation under way            *)
(*   board                  self.board: the footprints of the host (l. 21) *)
(*   footprints             the sorted local list (l. 81-87)               *)
(*   footprint_designators  the placement counter (l. 90-93)               *)
(*   bom_designators        its copy, the BOM counter (l. 94)              *)
(*   i                      index of the loop at l. 101                    *)
(*   components             self.components (l. 23, 130)                   *)
(*   bom                    self.bom (l. 22, 152-165)                      *)
(*   labels                 the designator strings formatted for the i-th  *)
(*                          footprint at l. 125 and l. 152/160             *)
(*   designators_file       lines of the designators file (l. 96-99)       *)
(*   placement_csv, bom_csv the CSV files (l. 167-176, l. 179-189), as the *)
(*                          header and the data rows handed to csv.writer  *)
(*   temp_dir               entries of the export directory                *)
(*   dir0                   its entries when generate_archive was called   *)
(*   outside                archives in the directory of temp_file         *)
(*   temp_file              the local temp_file of generate_archive        *)
(*   archive                the zip written by shutil.make_archive         *)
(*   items                  what is left of os.listdir(temp_dir) (l. 197)  *)
(*   ret                    the path generate_archive returns              *)
(*   fp_name, fp_result     argument and result of                         *)
(*                          _normalize_footprint_name                      *)
(***************************************************************************)
VARIABLES pc, board, footprints, footprint_designators, bom_designators, i,
          components, bom, labels, designators_file, placement_csv, bom_csv,
          temp_dir, dir0, outside, temp_file, archive, items, ret,
          fp_name, fp_result

vars == <<pc, board, footprints, footprint_designators, bom_designators, i,
          components, bom, labels, designators_file, placement_csv, bom_csv,
          temp_dir, dir0, outside, temp_file, archive, items, ret,
          fp_name, fp_result>>

posVars == <<board, footprints, footprint_designators, bom_designators, i,
             components, bom, labels, designators_file, placement_csv, bom_csv>>

arcVars == <<temp_dir, dir0, outside, temp_file, archive, items, ret>>

normVars == <<fp_name, fp_result>>

(***************************************************************************)
(* Bounds                                                                  *)
(***************************************************************************)
MaxFootprints == 3

MaxTokens == 5

(***************************************************************************)
(* Python str primitives                                                   *)
(***************************************************************************)
UpperCase == <<"A","B","C","D","E","F","G","H","I","J","K","L","M",
               "N","O","P","Q","R","S","T","U","V","W","X","Y","Z">>

LowerCase == <<"a","b","c","d","e","f","g","h","i","j","k","l","m",
               "n","o","p","q","r","s","t","u","v","w","x","y","z">>

DigitChars == <<"0","1","2","3","4","5","6","7","8","9">>

Range(s) == {s[k] : k \in DOMAIN s}

IndexOf(s, c) == CHOOSE k \in DOMAIN s : s[k] = c

IsUpper(c) == c \in Range(UpperCase)

IsLower(c) == c \in Range(LowerCase)

IsDigit(c) == c \in Range(DigitChars)

IsWord(c) == IsUpper(c) \/ IsLower(c) \/ IsDigit(c) \/ c = "_"

\* ord(c): the code point, which orders str comparison
Ord(c) ==
    IF IsUpper(c) THEN 64 + IndexOf(UpperCase, c)
    ELSE IF IsLower(c) THEN 96 + IndexOf(LowerCase, c)
    ELSE IF IsDigit(c) THEN 47 + IndexOf(DigitChars, c)
    ELSE CASE c = "\n" -> 10
           [] c = " "  -> 32
           [] c = "*"  -> 42
           [] c = ","  -> 44
           [] c = "-"  -> 45
           [] c = "."  -> 46
           [] c = ":"  -> 58
           [] c = "_"  -> 95

\* s < t on str: lexicographic by code point
RECURSIVE StrLess(_, _)
StrLess(s, t) ==
    IF t = <<>> THEN FALSE
    ELSE IF s = <<>> THEN TRUE
    ELSE IF s[1] # t[1] THEN Ord(s[1]) < Ord(t[1])
    ELSE StrLess(Tail(s), Tail(t))

\* str.upper()
CharUpper(c) == IF IsLower(c) THEN UpperCase[IndexOf(LowerCase, c)] ELSE c

Upper(s) == [k \in DOMAIN s |-> CharUpper(s[k])]

\* str(n) for n >= 0
RECURSIVE IntToStr(_)
IntToStr(n) ==
    IF n < 10 THEN <<DigitChars[n + 1]>>
    ELSE IntToStr(n \div 10) \o <<DigitChars[(n % 10) + 1]>>

\* sub in s
Contains(s, sub) ==
    \E p \in 1..(Len(s) - Len(sub) + 1) : SubSeq(s, p, p + Len(sub) - 1) = sub

\* s.endswith(suf)
EndsWith(s, suf) ==
    /\ Len(s) >= Len(suf)
    /\ SubSeq(s, Len(s) - Len(suf) + 1, Len(s)) = suf

\* a & b on non-negative ints
RECURSIVE BitAnd(_, _)
BitAnd(a, b) ==
    IF a = 0 \/ b = 0 THEN 0
    ELSE (a % 2) * (b % 2) + 2 * BitAnd(a \div 2, b \div 2)

(***************************************************************************)
(* _normalize_footprint_name: re.sub of                                    *)
(*   ^(\w*_SMD:)?\w{1,4}_(\d+)_\d+Metric.*$   by group 2                   *)
(***************************************************************************)
\* the literal lit stands at position p of s
LitAt(s, p, lit) ==
    /\ p + Len(lit) - 1 <= Len(s)
    /\ SubSeq(s, p, p + Len(lit) - 1) = lit

\* end (exclusive) of the longest run of word characters starting at p
RECURSIVE WordRunEnd(_, _)
WordRunEnd(s, p) ==
    IF p <= Len(s) /\ IsWord(s[p]) THEN WordRunEnd(s, p + 1) ELSE p

\* end (exclusive) of the longest run of digits starting at p
RECURSIVE DigitRunEnd(_, _)
DigitRunEnd(s, p) ==
    IF p <= Len(s) /\ IsDigit(s[p]) THEN DigitRunEnd(s, p + 1) ELSE p

\* end (exclusive) of the longest run of '.' (anything but newline) from p
RECURSIVE DotRunEnd(_, _)
DotRunEnd(s, p) ==
    IF p <= Len(s) /\ s[p] # "\n" THEN DotRunEnd(s, p + 1) ELSE p

\* '$' without re.MULTILINE: at the end, or just before a final newline
DollarAt(s, p) == p = Len(s) + 1 \/ (p = Len(s) /\ s[p] = "\n")

NoMatch == [ok |-> FALSE, g2 |-> <<>>, end |-> 0]

\* _(\d+)_\d+Metric.*$ from position p; the greedy runs can only succeed at
\* their full length, because a shorter one is followed by a character of
\* the same class.
MatchSize(s, p) ==
    IF ~LitAt(s, p, <<"_">>) THEN NoMatch ELSE
    LET d1 == DigitRunEnd(s, p + 1) IN
    IF d1 = p + 1 \/ ~LitAt(s, d1, <<"_">>) THEN NoMatch ELSE
    LET d2 == DigitRunEnd(s, d1 + 1) IN
    IF d2 = d1 + 1 \/ ~LitAt(s, d2, <<"M","e","t","r","i","c">>) THEN NoMatch ELSE
    LET e == DotRunEnd(s, d2 + 6) IN
    IF ~DollarAt(s, e) THEN NoMatch
    ELSE [ok |-> TRUE, g2 |-> SubSeq(s, p + 1, d1 - 1), end |-> e]

\* \w{1,4} from position p, greedy: k = 4, 3, 2, 1 word characters
RECURSIVE MatchWord(_, _, _)
MatchWord(s, p, k) ==
    IF k = 0 THEN NoMatch
    ELSE IF WordRunEnd(s, p) >= p + k /\ MatchSize(s, p + k).ok
         THEN MatchSize(s, p + k)
         ELSE MatchWord(s, p, k - 1)

\* (\w*_SMD:)? : \w* backtracks from the end of the word run q down to p
RECURSIVE MatchPrefix(_, _, _)
MatchPrefix(s, p, q) ==
    IF q < p THEN NoMatch
    ELSE IF LitAt(s, q, <<"_","S","M","D",":">>) /\ MatchWord(s, q + 5, 4).ok
         THEN MatchWord(s, q + 5, 4)
         ELSE MatchPrefix(s, p, q - 1)

\* the pattern without its optional library prefix
PatternMatchNoPrefix(s) == MatchWord(s, 1, 4)

\* pattern.match anchored at ^: the optional group is tried first
PatternMatch(s) ==
    LET withPrefix == MatchPrefix(s, 1, WordRunEnd(s, 1)) IN
    IF withPrefix.ok THEN withPrefix ELSE MatchWord(s, 1, 4)

normalize_footprint_name(footprint) ==
    LET m == PatternMatch(footprint) IN
    IF m.ok THEN m.g2 \o SubSeq(footprint, m.end, Len(footprint))
    ELSE footprint

(***************************************************************************)
(* The board handed over by the host (pcbnew.GetBoard())                   *)
(***************************************************************************)
\* pcbnew footprint attribute bits
FP_SMD == 2

FP_EXCLUDE_FROM_POS_FILES == 4

FP_EXCLUDE_FROM_BOM == 8

\* pcbnew layer identifiers
F_Cu == "F_Cu"

B_Cu == "B_Cu"

None == "None"

\* no label: the footprint is left out of the output
NoLabel == <<"None">>

\* no path, and no archive made yet
NoPath == [dir |-> None, name |-> <<>>]

NoArchive == [name |-> <<>>, members |-> {}]

\* a CSV file that was not written (a written one always has its header row)
NoFile == [header |-> <<>>, rows |-> <<>>]

\* the designators file when it was not written (a written one has lines)
NoLines == <<>>

\* GetDesignSettings().GetAuxOrigin(), in nanometres
AuxOrigin == <<1000000, 1000000>>

\* The parts a board is populated from: reference, library footprint name,
\* value, layer, orientation (degrees, or tenths of a degree on the old API).
Parts == {
    [ref |-> <<"R","1">>,
     name |-> <<"R","_","0","6","0","3","_","1","6","0","8","M","e","t","r","i","c">>,
     value |-> <<"1","0","k">>, layer |-> F_Cu,
     orient |-> [AsDegrees |-> TRUE, v |-> 90]],
    [ref |-> <<"R","1">>,
     name |-> <<"0","6","0","3">>,
     value |-> <<"1","0","K">>, layer |-> B_Cu,
     orient |-> [AsDegrees |-> FALSE, v |-> 1800]],
    [ref |-> <<"R","1","_","2">>,
     name |-> <<"S","O","T","-","2","3">>,
     value |-> <<"1","0","k">>, layer |-> F_Cu,
     orient |-> [AsDegrees |-> TRUE, v |-> 270]],
    [ref |-> <<"R","E","F","*","*">>,
     name |-> <<"R","_","0","6","0","3","_","1","6","0","8","M","e","t","r","i","c">>,
     value |-> <<"1","0","k">>, layer |-> "In1_Cu",
     orient |-> [AsDegrees |-> TRUE, v |-> 0]] }

AttributeSets == {FP_SMD,
                  FP_SMD + FP_EXCLUDE_FROM_POS_FILES,
                  FP_SMD + FP_EXCLUDE_FROM_BOM,
                  FP_SMD + FP_EXCLUDE_FROM_POS_FILES + FP_EXCLUDE_FROM_BOM}

\* the k-th footprint of the board: every footprint has its own position
Footprint(part, attrs, k) ==
    [ref |-> part.ref, name |-> part.name, value |-> part.value,
     layer |-> part.layer, orient |-> part.orient, attrs |-> attrs,
     pos |-> <<k * 1000000, k * 2000000>>]

\* a board of n footprints, populated as f says
Board(n, f) == [k \in 1..n |-> Footprint(f[k][1], f[k][2], k)]

(***************************************************************************)
(* generate_positions                                                      *)
(***************************************************************************)
\* list.sort(key=GetReference): stable, ascending by reference
RECURSIVE InsertSorted(_, _)
InsertSorted(sorted, fp) ==
    IF sorted = <<>> THEN <<fp>>
    ELSE IF StrLess(fp.ref, sorted[Len(sorted)].ref)
         THEN InsertSorted(SubSeq(sorted, 1, Len(sorted) - 1), fp)
                  \o <<sorted[Len(sorted)]>>
         ELSE sorted \o <<fp>>

RECURSIVE SortByReference(_)
SortByReference(fps) ==
    IF fps = <<>> THEN <<>>
    ELSE InsertSorted(SortByReference(SubSeq(fps, 1, Len(fps) - 1)), fps[Len(fps)])

\* the defaultdict(int) after the counting loop
CountDesignators(fps) ==
    [r \in {fps[k].ref : k \in DOMAIN fps} |->
        Cardinality({k \in DOMAIN fps : fps[k].ref = r})]

\* the keys of the dict in insertion order
RECURSIVE KeysInOrder(_)
KeysInOrder(fps) ==
    IF fps = <<>> THEN <<>>
    ELSE LET front == KeysInOrder(SubSeq(fps, 1, Len(fps) - 1))
             r == fps[Len(fps)].ref
         IN IF r \in Range(front) THEN front ELSE front \o <<r>>

\* '%s:%s\n' % (key, value)
DesignatorLine(key, value) == key \o <<":">> \o IntToStr(value) \o <<"\n">>

\* unique_id: str(counter) when the reference is counted more than once
UniqueId(counter, ref) == IF counter[ref] > 1 THEN IntToStr(counter[ref]) ELSE <<>>

\* the counter is left as it is
TakeIdKeep(counter, ref) == counter

\* the counter after the footprint has taken its unique_id
TakeId(counter, ref) ==
    IF counter[ref] > 1 THEN [counter EXCEPT ![ref] = @ - 1] ELSE counter

\* "{}{}{}".format(reference, "" if unique_id == "" else "_", unique_id)
FormatDesignator(ref, unique_id) ==
    ref \o (IF unique_id = <<>> THEN <<>> ELSE <<"_">>) \o unique_id

LayerName(layer) ==
    IF layer = F_Cu THEN "top" ELSE IF layer = B_Cu THEN "bottom" ELSE None

Rotation(orient) == IF orient.AsDegrees THEN orient.v ELSE orient.v \div 10

\* either exclusion flag leaves the footprint out of the placement rows
InPositionsAndBom(fp) ==
    BitAnd(fp.attrs, FP_EXCLUDE_FROM_POS_FILES + FP_EXCLUDE_FROM_BOM) = 0

InPositions(fp) == BitAnd(fp.attrs, FP_EXCLUDE_FROM_POS_FILES) = 0

InBom(fp) == BitAnd(fp.attrs, FP_EXCLUDE_FROM_BOM) = 0

PlacementRow(fp, designator) ==
    [Designator |-> designator,
     MidX |-> (fp.pos[1] - AuxOrigin[1]) \div 1000000,
     MidY |-> ((fp.pos[2] - AuxOrigin[2]) * (-1)) \div 1000000,
     Rotation |-> Rotation(fp.orient),
     Layer |-> LayerName(fp.layer)]

\* the merge test of a BOM row against the footprint
SameFootprint(component, fp) == component.Footprint = normalize_footprint_name(fp.name)

\* the values are compared as written
SameValueExact(component, fp) == component.Value = fp.value

SameValue(component, fp) == Upper(component.Value) = Upper(fp.value)

SamePart(component, fp) == SameFootprint(component, fp) /\ SameValue(component, fp)

\* self.bom after the merge loop and the conditional append
MergeIntoBom(rows, fp, designator) ==
    LET merged == [k \in DOMAIN rows |->
                     IF SamePart(rows[k], fp)
                     THEN [rows[k] EXCEPT
                             !.Designator = @ \o <<",", " ">> \o designator,
                             !.Quantity = @ + 1]
                     ELSE rows[k]]
        insert == \A k \in DOMAIN rows : ~SamePart(rows[k], fp)
    IN IF insert
       THEN merged \o <<[Designator |-> designator,
                         Footprint |-> normalize_footprint_name(fp.name),
                         Quantity |-> 1,
                         Value |-> fp.value]>>
       ELSE merged

\* every row is written
CsvRowsAll(rows) == rows

\* the data rows a CSV writer emits: those whose Designator lacks "**"
RECURSIVE CsvRows(_)
CsvRows(rows) ==
    IF rows = <<>> THEN <<>>
    ELSE LET front == CsvRows(SubSeq(rows, 1, Len(rows) - 1))
             row == rows[Len(rows)]
         IN IF ~Contains(row.Designator, <<"*","*">>) THEN front \o <<row>> ELSE front

PlacementHeader == <<"Designator", "Mid X", "Mid Y", "Rotation", "Layer">>

BomHeader == <<"Designator", "Footprint", "Quantity", "Value">>

\* lines 81-87: fetch the footprints and sort them after designator
SortFootprints ==
    /\ pc = "init"
    /\ footprints' = SortByReference(board)
    /\ pc' = "count"
    /\ UNCHANGED <<board, footprint_designators, bom_designators, i, components,
                   bom, labels, designators_file, placement_csv, bom_csv>>
    /\ UNCHANGED arcVars /\ UNCHANGED normVars

\* lines 89-99: count the designators, copy the counter, write the file
CountFootprints ==
    /\ pc = "count"
    /\ footprint_designators' = CountDesignators(footprints)
    /\ bom_designators' = CountDesignators(footprints)
    /\ designators_file' =
         IF Len(footprints) > 0
         THEN LET keys == KeysInOrder(footprints) IN
              [k \in DOMAIN keys |->
                  DesignatorLine(keys[k], CountDesignators(footprints)[keys[k]])]
         ELSE NoLines
    /\ i' = 1
    /\ pc' = "loop"
    /\ UNCHANGED <<board, footprints, components, bom, labels, placement_csv, bom_csv>>
    /\ UNCHANGED arcVars /\ UNCHANGED normVars

\* lines 101-165: one iteration of the loop over the sorted footprints
ProcessFootprint ==
    /\ pc = "loop"
    /\ i <= Len(footprints)
    /\ LET fp == footprints[i]
           pos_designator ==
               FormatDesignator(fp.ref, UniqueId(footprint_designators, fp.ref))
           bom_designator ==
               FormatDesignator(fp.ref, UniqueId(bom_designators, fp.ref))
       IN /\ IF InPositions(fp)
             THEN /\ footprint_designators' = TakeId(footprint_designators, fp.ref)
                  /\ components' = Append(components, PlacementRow(fp, pos_designator))
             ELSE UNCHANGED <<footprint_designators, components>>
          /\ IF InBom(fp)
             THEN /\ bom_designators' = TakeId(bom_designators, fp.ref)
                  /\ bom' = MergeIntoBom(bom, fp, bom_designator)
             ELSE UNCHANGED <<bom_designators, bom>>
          /\ labels' = Append(labels,
                 [pos |-> IF InPositions(fp) THEN pos_designator ELSE NoLabel,
                  bom |-> IF InBom(fp) THEN bom_designator ELSE NoLabel])
    /\ i' = i + 1
    /\ UNCHANGED <<pc, board, footprints, designators_file, placement_csv, bom_csv>>
    /\ UNCHANGED arcVars /\ UNCHANGED normVars

\* lines 167-176: write the placement CSV
WritePlacement ==
    /\ pc = "loop"
    /\ i > Len(footprints)
    /\ placement_csv' =
         IF Len(components) > 0
         THEN [header |-> PlacementHeader, rows |-> CsvRows(components)]
         ELSE NoFile
    /\ pc' = "positions_done"
    /\ UNCHANGED <<board, footprints, footprint_designators, bom_designators, i,
                   components, bom, labels, designators_file, bom_csv>>
    /\ UNCHANGED arcVars /\ UNCHANGED normVars

(***************************************************************************)
(* generate_bom                                                            *)
(***************************************************************************)
generate_bom ==
    /\ pc = "positions_done"
    /\ bom_csv' =
         IF Len(bom) > 0
         THEN [header |-> BomHeader, rows |-> CsvRows(bom)]
         ELSE NoFile
    /\ pc' = "bom_done"
    /\ UNCHANGED <<board, footprints, footprint_designators, bom_designators, i,
                   components, bom, labels, designators_file, placement_csv>>
    /\ UNCHANGED arcVars /\ UNCHANGED normVars

generate_positions == SortFootprints \/ CountFootprints \/ ProcessFootprint \/ WritePlacement

\* ProcessManager.__init__ on a board of the host
Init ==
    /\ pc = "init"
    /\ \E n \in 0..MaxFootprints :
         \E f \in [1..n -> Parts \X AttributeSets] : board = Board(n, f)
    /\ footprints = <<>>
    /\ footprint_designators = <<>>
    /\ bom_designators = <<>>
    /\ i = 0
    /\ components = <<>>
    /\ bom = <<>>
    /\ labels = <<>>
    /\ designators_file = NoLines
    /\ placement_csv = NoFile
    /\ bom_csv = NoFile
    /\ temp_dir = {} /\ dir0 = {} /\ outside = {}
    /\ temp_file = NoPath /\ archive = NoArchive
    /\ items = {} /\ ret = NoPath
    /\ fp_name = <<>> /\ fp_result = <<>>

Next ==
    \/ SortFootprints
    \/ CountFootprints
    \/ ProcessFootprint
    \/ WritePlacement
    \/ generate_bom

Spec == Init /\ [][Next]_vars

(***************************************************************************)
(* generate_archive(temp_dir, temp_file)                                   *)
(***************************************************************************)
File(name) == [name |-> name, kind |-> "file"]

Dir(name) == [name |-> name, kind |-> "dir"]

\* what the earlier steps or an earlier export may have left in temp_dir
DirEntries == {
    File(<<"a",".","g","b","r">>),
    File(<<"d",".","d","r","l">>),
    File(<<"n",".","i","p","c">>),
    File(<<"p",".","c","s","v">>),
    File(<<"d","e","s","i","g","n","a","t","o","r","s">>),
    File(<<"A",".","Z","I","P">>),
    File(<<"o",".","z","i","p">>),
    Dir(<<"s","u","b">>) }

\* the base name of the archive, in a scratch directory or in temp_dir itself
TempFiles == { [dir |-> "outside", name |-> <<"o">>],
               [dir |-> "temp_dir", name |-> <<"o">>] }

Names(entries) == {e.name : e \in entries}

\* only archives are kept
KeepsItemZipOnly(item) == EndsWith(item, <<".","z","i","p">>)

\* line 198: the item is kept
KeepsItem(item) ==
    \/ EndsWith(item, <<".","z","i","p">>)
    \/ EndsWith(item, <<".","c","s","v">>)
    \/ EndsWith(item, <<".","i","p","c">>)

\* only the entries that are kept afterwards are bundled
ArchiveMembersKept(entries) == {e.name : e \in {x \in entries : KeepsItem(x.name)}}

\* the entries shutil.make_archive puts into the zip: all of root_dir
ArchiveMembers(entries) == Names(entries)

\* line 193: temp_file = shutil.make_archive(temp_file, 'zip', temp_dir)
\* An archive written into temp_dir itself may or may not list itself.
MakeArchive ==
    /\ pc = "archive_init"
    /\ LET zip == temp_file.name \o <<".","z","i","p">> IN
       /\ temp_file' = [dir |-> temp_file.dir, name |-> zip]
       /\ IF temp_file.dir = "outside"
          THEN /\ archive' = [name |-> zip, members |-> ArchiveMembers(temp_dir)]
               /\ outside' = outside \cup {zip}
               /\ UNCHANGED temp_dir
          ELSE /\ \E self \in SUBSET {zip} :
                    archive' = [name |-> zip,
                                members |-> (ArchiveMembers(temp_dir) \ {zip}) \cup self]
               /\ temp_dir' = {e \in temp_dir : e.name # zip} \cup {File(zip)}
               /\ UNCHANGED outside
    /\ pc' = "archived"
    /\ UNCHANGED <<dir0, items, ret>>
    /\ UNCHANGED posVars /\ UNCHANGED normVars

\* line 194: temp_file = shutil.move(temp_file, temp_dir); shutil.Error when
\* temp_dir already has an entry of that name
MoveArchive ==
    /\ pc = "archived"
    /\ IF temp_file.name \in Names(temp_dir)
       THEN /\ pc' = "raised"
            /\ UNCHANGED <<temp_dir, outside, temp_file>>
       ELSE /\ temp_dir' = temp_dir \cup {File(temp_file.name)}
            /\ outside' = outside \ {temp_file.name}
            /\ temp_file' = [dir |-> "temp_dir", name |-> temp_file.name]
            /\ pc' = "listing"
    /\ UNCHANGED <<dir0, archive, items, ret>>
    /\ UNCHANGED posVars /\ UNCHANGED normVars

\* line 197: os.listdir(temp_dir)
ListDir ==
    /\ pc = "listing"
    /\ items' = temp_dir
    /\ pc' = "cleanup"
    /\ UNCHANGED <<temp_dir, dir0, outside, temp_file, archive, ret>>
    /\ UNCHANGED posVars /\ UNCHANGED normVars

\* lines 197-199: one item of the listing, in whatever order the listing has;
\* os.remove raises on a directory
CleanupItem ==
    /\ pc = "cleanup"
    /\ \E item \in items :
         /\ items' = items \ {item}
         /\ IF KeepsItem(item.name)
            THEN UNCHANGED <<temp_dir, pc>>
            ELSE IF item.kind = "dir"
                 THEN pc' = "raised" /\ UNCHANGED temp_dir
                 ELSE temp_dir' = temp_dir \ {item} /\ UNCHANGED pc
    /\ UNCHANGED <<dir0, outside, temp_file, archive, ret>>
    /\ UNCHANGED posVars /\ UNCHANGED normVars

\* line 201: return temp_file
ReturnArchive ==
    /\ pc = "cleanup"
    /\ items = {}
    /\ ret' = temp_file
    /\ pc' = "archive_done"
    /\ UNCHANGED <<temp_dir, dir0, outside, temp_file, archive, items>>
    /\ UNCHANGED posVars /\ UNCHANGED normVars

generate_archive == MakeArchive \/ MoveArchive \/ ListDir \/ CleanupItem \/ ReturnArchive

\* the call generate_archive(temp_dir, temp_file) on a directory holding
\* some of the entries
InitArchive ==
    /\ pc = "archive_init"
    /\ temp_dir \in SUBSET DirEntries
    /\ dir0 = temp_dir
    /\ outside = {}
    /\ temp_file \in TempFiles
    /\ archive = NoArchive
    /\ items = {}
    /\ ret = NoPath
    /\ board = <<>> /\ footprints = <<>>
    /\ footprint_designators = <<>> /\ bom_designators = <<>>
    /\ i = 0 /\ components = <<>> /\ bom = <<>> /\ labels = <<>>
    /\ designators_file = NoLines /\ placement_csv = NoFile /\ bom_csv = NoFile
    /\ fp_name = <<>> /\ fp_result = <<>>

NextArchive ==
    \/ MakeArchive
    \/ MoveArchive
    \/ ListDir
    \/ CleanupItem
    \/ ReturnArchive

SpecArchive == InitArchive /\ [][NextArchive]_vars

(***************************************************************************)
(* _normalize_footprint_name applied to library footprint names            *)
(***************************************************************************)
Tokens == { <<"R","e","s","i","s","t","o","r","_","S","M","D",":">>,
            <<"R","_">>,
            <<"0","6","0","3","_">>,
            <<"1","6","0","8">>,
            <<"M","e","t","r","i","c">>,
            <<"-">>,
            <<"\n">> }

RECURSIVE Concat(_)
Concat(ts) == IF ts = <<>> THEN <<>> ELSE ts[1] \o Concat(Tail(ts))

\* self._normalize_footprint_name(footprint_name)
Normalize ==
    /\ pc = "norm_init"
    /\ fp_result' = normalize_footprint_name(fp_name)
    /\ pc' = "normalized"
    /\ UNCHANGED fp_name
    /\ UNCHANGED posVars /\ UNCHANGED arcVars

\* the normalized name is normalized once more
Renormalize ==
    /\ pc = "normalized"
    /\ fp_name' = fp_result
    /\ fp_result' = normalize_footprint_name(fp_result)
    /\ pc' = "renormalized"
    /\ UNCHANGED posVars /\ UNCHANGED arcVars

InitNormalize ==
    /\ pc = "norm_init"
    /\ \E n \in 0..MaxTokens : \E ts \in [1..n -> Tokens] : fp_name = Concat(ts)
    /\ fp_result = <<>>
    /\ board = <<>> /\ footprints = <<>>
    /\ footprint_designators = <<>> /\ bom_designators = <<>>
    /\ i = 0 /\ components = <<>> /\ bom = <<>> /\ labels = <<>>
    /\ designators_file = NoLines /\ placement_csv = NoFile /\ bom_csv = NoFile
    /\ temp_dir = {} /\ dir0 = {} /\ outside = {}
    /\ temp_file = NoPath /\ archive = NoArchive
    /\ items = {} /\ ret = NoPath

NextNormalize ==
    \/ Normalize
    \/ Renormalize

SpecNormalize == InitNormalize /\ [][NextNormalize]_vars

(***************************************************************************)
(* Properties of generate_positions / generate_bom                         *)
(***************************************************************************)
PositionsDone == pc \in {"positions_done", "bom_done"}

\* s.split(", ")
RECURSIVE SplitList(_, _)
SplitList(s, cur) ==
    IF s = <<>> THEN <<cur>>
    ELSE IF Len(s) >= 2 /\ s[1] = "," /\ s[2] = " "
         THEN <<cur>> \o SplitList(SubSeq(s, 3, Len(s)), <<>>)
         ELSE SplitList(Tail(s), Append(cur, s[1]))

DesignatorList(row) == SplitList(row.Designator, <<>>)

RECURSIVE Flatten(_)
Flatten(ss) == IF ss = <<>> THEN <<>> ELSE ss[1] \o Flatten(Tail(ss))

PlacementLabels == [k \in DOMAIN components |-> components[k].Designator]

BomLabels == Flatten([k \in DOMAIN bom |-> DesignatorList(bom[k])])

PairwiseDistinct(seq) == \A a, b \in DOMAIN seq : a # b => seq[a] # seq[b]

HasStars(s) == \E k \in 1..(Len(s) - 1) : s[k] = "*" /\ s[k + 1] = "*"

RECURSIVE StrToInt(_)
StrToInt(s) ==
    IF s = <<>> THEN 0
    ELSE 10 * StrToInt(SubSeq(s, 1, Len(s) - 1)) + (IndexOf(DigitChars, s[Len(s)]) - 1)

\* the label is the reference followed by "_" and digits
HasSuffix(ref, label) ==
    /\ Len(label) > Len(ref) + 1
    /\ SubSeq(label, 1, Len(ref)) = ref
    /\ label[Len(ref) + 1] = "_"
    /\ \A k \in (Len(ref) + 2)..Len(label) : IsDigit(label[k])

SuffixOf(ref, label) == StrToInt(SubSeq(label, Len(ref) + 2, Len(label)))

\* number of footprints of the board carrying the reference
RefCount(ref) == Cardinality({k \in DOMAIN board : board[k].ref = ref})

\* the label the j-th processed footprint got in the placement rows
\* (out = "pos") or in the BOM (out = "bom"), NoLabel when left out of it
LabelOf(j, out) == IF out = "pos" THEN labels[j].pos ELSE labels[j].bom

\* C1: after one run the Designator labels of the placement rows are
\* pairwise distinct, and so are the designator labels collected across
\* all BOM rows.
C1_UniqueLabels ==
    PositionsDone => PairwiseDistinct(PlacementLabels) /\ PairwiseDistinct(BomLabels)

\* C2 (as stated): the footprints sharing a duplicated reference each
\* receive a numeric suffix, and a later one a strictly greater suffix
\* than every earlier one.
C2_IncreasingSuffixes ==
    \A out \in {"pos", "bom"} : \A j2 \in DOMAIN labels :
        (RefCount(footprints[j2].ref) > 1 /\ LabelOf(j2, out) # NoLabel) =>
            /\ HasSuffix(footprints[j2].ref, LabelOf(j2, out))
            /\ \A j1 \in 1..(j2 - 1) :
                 (footprints[j1].ref = footprints[j2].ref /\ LabelOf(j1, out) # NoLabel) =>
                     /\ HasSuffix(footprints[j1].ref, LabelOf(j1, out))
                     /\ SuffixOf(footprints[j1].ref, LabelOf(j1, out))
                          < SuffixOf(footprints[j2].ref, LabelOf(j2, out))

\* C2 (amended): among the footprints sharing a duplicated reference, in
\* processing order, a later one receives a strictly smaller suffix than
\* every earlier one; every one put in an output receives a suffix there,
\* except the last of the group, which keeps the bare reference when none
\* of the group was left out of that output.
C2_DecreasingSuffixes ==
    \A out \in {"pos", "bom"} : \A j2 \in DOMAIN labels :
        LET ref == footprints[j2].ref
            group == {j \in DOMAIN footprints : footprints[j].ref = ref}
        IN (RefCount(ref) > 1 /\ LabelOf(j2, out) # NoLabel) =>
            /\ \A j1 \in 1..(j2 - 1) :
                 (footprints[j1].ref = ref /\ LabelOf(j1, out) # NoLabel) =>
                     /\ HasSuffix(ref, LabelOf(j1, out))
                     /\ HasSuffix(ref, LabelOf(j2, out)) =>
                          SuffixOf(ref, LabelOf(j2, out)) < SuffixOf(ref, LabelOf(j1, out))
            /\ ~HasSuffix(ref, LabelOf(j2, out)) =>
                 /\ LabelOf(j2, out) = ref
                 /\ \A j \in group : j <= j2 /\ LabelOf(j, out) # NoLabel

C2_Witness ==
    /\ PositionsDone
    /\ \E j1, j2, j3 \in DOMAIN labels :
         /\ j1 < j2 /\ j2 < j3
         /\ footprints[j1].ref = footprints[j3].ref
         /\ labels[j1].pos = footprints[j1].ref \o <<"_", "3">>
         /\ labels[j2].pos = footprints[j1].ref \o <<"_", "2">>
         /\ labels[j3].pos = footprints[j1].ref
         /\ labels[j1].bom = NoLabel
         /\ labels[j2].bom = footprints[j1].ref \o <<"_", "3">>
         /\ labels[j3].bom = footprints[j1].ref \o <<"_", "2">>

\* the merge key of a footprint and of a BOM row
FootprintKey(fp) == <<normalize_footprint_name(fp.name), Upper(fp.value)>>

RowKey(row) == <<row.Footprint, Upper(row.Value)>>

BomFootprints == {k \in DOMAIN board : InBom(board[k])}

\* C3: after one run self.bom holds exactly one row per distinct
\* (normalized footprint, upper-cased value) key occurring among the
\* footprints not excluded from the BOM; the row's Quantity is the number
\* of those footprints with that key and the number of designators listed.
C3_BomMerged ==
    PositionsDone =>
        /\ \A a, b \in DOMAIN bom : a # b => RowKey(bom[a]) # RowKey(bom[b])
        /\ {RowKey(bom[a]) : a \in DOMAIN bom}
             = {FootprintKey(board[k]) : k \in BomFootprints}
        /\ \A a \in DOMAIN bom :
             /\ bom[a].Quantity
                  = Cardinality({k \in BomFootprints :
                                    FootprintKey(board[k]) = RowKey(bom[a])})
             /\ bom[a].Quantity = Len(DesignatorList(bom[a]))

\* two footprints whose values differ only in case and whose library names
\* differ share one row of quantity 2, next to a row of another key
C3_Witness ==
    /\ PositionsDone
    /\ Len(bom) = 2
    /\ \E a \in DOMAIN bom : \E k1, k2 \in BomFootprints :
         /\ bom[a].Quantity = 2
         /\ board[k1].value # board[k2].value
         /\ board[k1].name # board[k2].name
         /\ FootprintKey(board[k1]) = RowKey(bom[a])
         /\ FootprintKey(board[k2]) = RowKey(bom[a])

\* the data rows of a CSV file, as a set
Written(file) == Range(file.rows)

\* C5: no data row of the placement CSV or of the BOM CSV has a
\* Designator containing "**", and every row whose Designator does not
\* contain "**" is written.
C5_StarRowsExcluded ==
    /\ PositionsDone =>
         /\ \A row \in Written(placement_csv) :
              row \in Range(components) /\ ~HasStars(row.Designator)
         /\ \A row \in Range(components) :
              ~HasStars(row.Designator) => row \in Written(placement_csv)
    /\ pc = "bom_done" =>
         /\ \A row \in Written(bom_csv) :
              row \in Range(bom) /\ ~HasStars(row.Designator)
         /\ \A row \in Range(bom) :
              ~HasStars(row.Designator) => row \in Written(bom_csv)

\* both files were written, each with a row kept and a row dropped
C5_Witness ==
    /\ pc = "bom_done"
    /\ \E r1, r2 \in Range(components) :
         r1 \in Written(placement_csv) /\ HasStars(r2.Designator)
    /\ \E r1, r2 \in Range(bom) :
         r1 \in Written(bom_csv) /\ HasStars(r2.Designator)

\* the board index of the footprint a placement row was made from
RowSource(row) == row.MidX + 1

\* C8: after one run self.components holds exactly one placement row per
\* footprint not flagged FP_EXCLUDE_FROM_POS_FILES and none for a flagged
\* one, in ascending order of reference, whatever the FP_EXCLUDE_FROM_BOM
\* flag; and the BOM lists a footprint whatever its position-file flag.
C8_OneRowPerFootprint ==
    PositionsDone =>
        /\ \A k \in DOMAIN board :
             Cardinality({a \in DOMAIN components : RowSource(components[a]) = k})
               = (IF BitAnd(board[k].attrs, FP_EXCLUDE_FROM_POS_FILES) = 0 THEN 1 ELSE 0)
        /\ \A a \in DOMAIN components : RowSource(components[a]) \in DOMAIN board
        /\ \A a, b \in DOMAIN components :
             a < b => ~StrLess(board[RowSource(components[b])].ref,
                               board[RowSource(components[a])].ref)
        /\ \A j \in DOMAIN footprints :
             (labels[j].bom # NoLabel)
               <=> (BitAnd(footprints[j].attrs, FP_EXCLUDE_FROM_BOM) = 0)

\* a board given out of order, with a row for a BOM-excluded footprint and
\* none for a footprint excluded from the position files only
C8_Witness ==
    /\ PositionsDone
    /\ Len(board) = 3 /\ Len(components) = 2
    /\ StrLess(board[3].ref, board[1].ref)
    /\ \E k \in DOMAIN board :
         /\ board[k].attrs = FP_SMD + FP_EXCLUDE_FROM_BOM
         /\ \E a \in DOMAIN components : RowSource(components[a]) = k
    /\ \E k \in DOMAIN board : board[k].attrs = FP_SMD + FP_EXCLUDE_FROM_POS_FILES

\* C9: a footprint included in both outputs gets the same designator label
\* in its placement row and in the BOM.
C9_SameLabelInBothOutputs ==
    \A j \in DOMAIN labels :
        (labels[j].pos # NoLabel /\ labels[j].bom # NoLabel) =>
            labels[j].pos = labels[j].bom

\* C10: after generate_positions and generate_bom every footprint kept in
\* the BOM whose reference has no "**" is listed in a written BOM row, and
\* the Quantity of a written row counts only such footprints.
C10_NoPartDropped ==
    pc = "bom_done" =>
        /\ \A j \in DOMAIN footprints :
             (InBom(footprints[j]) /\ ~HasStars(footprints[j].ref)) =>
                 \E row \in Written(bom_csv) :
                     labels[j].bom \in Range(DesignatorList(row))
        /\ \A row \in Written(bom_csv) :
             row.Quantity
               = Cardinality({j \in DOMAIN footprints :
                    /\ InBom(footprints[j])
                    /\ ~HasStars(footprints[j].ref)
                    /\ FootprintKey(footprints[j]) = RowKey(row)})

(***************************************************************************)
(* Properties of _normalize_footprint_name                                 *)
(***************************************************************************)
AllWord(s, a, b) == \A k \in a..b : IsWord(s[k])

AllDigits(s, a, b) == \A k \in a..b : IsDigit(s[k])

\* The readings of s[1..e] as
\*   [<word>_SMD:]<1-4 word chars>_<digits>_<digits>Metric<tail>
\* the 1-4 word characters at a..b-1, the first digit group at b+1..c-1,
\* the second at c+1..d-1, "Metric" at d..d+5 and the tail after it.
WordStarts(s, e) ==
    {1} \cup { a \in 6..e : /\ SubSeq(s, a - 5, a - 1) = <<"_","S","M","D",":">>
                            /\ AllWord(s, 1, a - 6) }

WordEnds(s, e, a) ==
    { b \in (a + 1)..(IF a + 4 < e THEN a + 4 ELSE e) :
        AllWord(s, a, b - 1) /\ s[b] = "_" }

FirstGroupEnds(s, e, b) ==
    { c \in (b + 2)..e : AllDigits(s, b + 1, c - 1) /\ s[c] = "_" }

MetricStarts(s, e, c) ==
    { d \in (c + 2)..(e - 5) :
        /\ AllDigits(s, c + 1, d - 1)
        /\ SubSeq(s, d, d + 5) = <<"M","e","t","r","i","c">> }

\* the first digit groups of the readings of s[1..e] as a name of the shape
SizeCodes(s, e) ==
    UNION { UNION { { SubSeq(s, b + 1, c - 1) :
                        c \in { c \in FirstGroupEnds(s, e, b) :
                                  MetricStarts(s, e, c) # {} } } :
                    b \in WordEnds(s, e, a) } :
            a \in WordStarts(s, e) }

HasNewline(s) == \E k \in DOMAIN s : s[k] = "\n"

\* the shape with a tail free of newlines
ShapedOneLine(s) == SizeCodes(s, Len(s)) # {} /\ ~HasNewline(s)

\* the shape with a tail free of newlines, then one final newline
ShapedThenNewline(s) ==
    /\ Len(s) > 0 /\ s[Len(s)] = "\n"
    /\ ShapedOneLine(SubSeq(s, 1, Len(s) - 1))

\* C4 (as stated): a name of the shape, whatever follows "Metric", is
\* mapped to just the first digit group; every other name is returned
\* unchanged; normalizing a normalized name returns it unchanged.
C4_ShapeToSizeCode ==
    /\ pc = "normalized" =>
         IF SizeCodes(fp_name, Len(fp_name)) # {}
         THEN fp_result \in SizeCodes(fp_name, Len(fp_name))
         ELSE fp_result = fp_name
    /\ pc = "renormalized" => fp_result = fp_name

\* C4 (amended): a name of the shape whose tail has no newline is
\* mapped to just the first digit group; such a name followed by one final
\* newline is mapped to the first digit group followed by the newline;
\* every other name is returned unchanged; normalizing a normalized name
\* returns it unchanged.
C4_OneLineShapeToSizeCode ==
    /\ pc = "normalized" =>
         IF ShapedOneLine(fp_name)
         THEN fp_result \in SizeCodes(fp_name, Len(fp_name))
         ELSE IF ShapedThenNewline(fp_name)
              THEN \E code \in SizeCodes(fp_name, Len(fp_name) - 1) :
                       fp_result = code \o <<"\n">>
              ELSE fp_result = fp_name
    /\ pc = "renormalized" => fp_result = fp_name

\* the library-qualified name of the example was cut down to "0603"
C4_Witness ==
    /\ pc = "normalized"
    /\ fp_name = <<"R","e","s","i","s","t","o","r","_","S","M","D",":",
                   "R","_","0","6","0","3","_","1","6","0","8",
                   "M","e","t","r","i","c">>
    /\ fp_result = <<"0","6","0","3">>

(***************************************************************************)
(* Properties of generate_archive                                          *)
(***************************************************************************)
Extension(name) ==
    IF Len(name) >= 4 THEN SubSeq(name, Len(name) - 3, Len(name)) ELSE <<>>

KeptExtensions == { <<".","z","i","p">>, <<".","c","s","v">>, <<".","i","p","c">> }

\* C6: after generate_archive returns, every entry left in temp_dir ends
\* in .zip, .csv or .ipc, every .csv and .ipc file that was there before
\* the call is still there, and the returned path is the zip archive
\* inside temp_dir.
C6_OnlyEssentialFilesRemain ==
    pc = "archive_done" =>
        /\ \A e \in temp_dir : Extension(e.name) \in KeptExtensions
        /\ \A e \in dir0 :
             Extension(e.name) \in { <<".","c","s","v">>, <<".","i","p","c">> }
               => e \in temp_dir
        /\ ret = [dir |-> "temp_dir", name |-> archive.name]
        /\ Extension(archive.name) = <<".","z","i","p">>
        /\ File(archive.name) \in temp_dir
        /\ archive.name \notin outside

\* a return from a directory that held a netlist, a CSV and other files
C6_Witness ==
    /\ pc = "archive_done"
    /\ File(<<"n",".","i","p","c">>) \in dir0
    /\ File(<<"p",".","c","s","v">>) \in dir0
    /\ File(<<"a",".","g","b","r">>) \in dir0
    /\ File(<<"A",".","Z","I","P">>) \in dir0
    /\ Cardinality(temp_dir) = 3

\* C7: nothing is removed from temp_dir before the zip archive exists, and
\* every file present in temp_dir at the call is a member of the archive
\* that is returned.
C7_DeleteAfterBundling ==
    /\ pc \in {"archive_init", "archived", "listing"} => dir0 \subseteq temp_dir
    /\ archive = NoArchive => temp_dir = dir0
    /\ pc = "archive_done" =>
         \A e \in dir0 : e.kind = "file" => e.name \in archive.members

\* a return after which a file of the call is gone from temp_dir and is
\* in the archive
C7_Witness ==
    /\ pc = "archive_done"
    /\ \E e \in dir0 : e \notin temp_dir /\ e.name \in archive.members
    /\ \E e \in dir0 : e \in temp_dir /\ e.name \in archive.members

====
